---- MODULE Spec2Model ----
(***************************************************************************)
(* A model of train.py (DeepLab v2 training script): the parameter         *)
(* grouper get_params, the polynomial learning-rate scheduler              *)
(* poly_lr_scheduler, and the training loop of main with its gradient      *)
(* accumulation, checkpoint emission and latency log.                      *)
(*                                                                         *)
(* Real numbers (learning rates, losses) are exact rationals <<n, d>> in   *)
(* lowest terms with d > 0.                                                *)
(***************************************************************************)
EXTENDS Integers, Sequences, FiniteSets, TLC

VARIABLES
    CONFIG,              \* the configuration read at line 74, never mutated
    env,                 \* the collaborators: loader length, whether they may fail
    pc,                  \* position of main
    iteration,           \* the outer loop variable of line 138 (0 before the loop)
    i,                   \* the inner loop variable of line 162
    param_lr,            \* optimizer.param_groups[0..2]["lr"]
    grad,                \* accumulated gradient, as the sum of the losses backpropagated since zero_grad
    iter_loss,           \* line 158
    loss_meter,          \* the values added to loss_meter: how many, and the last one
    data_times,          \* line 160
    compute_times,       \* line 161
    locals_bound,        \* which of the locals start / data_times are bound
    loader_pos,          \* batches already drawn from loader_iter
    weights,             \* model weights, as the number of optimizer steps applied
    checkpoints,         \* checkpoint_<k>.pth: k -> [writes, weights]
    checkpoint_current,  \* checkpoint_current.pth: [writes, weights]
    checkpoint_final,    \* checkpoint_final.pth: [writes, weights]
    logs_csv,            \* logs.csv: [exists, rows]
    tb_scalars,          \* iteration of the last TensorBoard emission
    error,               \* the exception that ended the run ("none" while running)
    caught,              \* the exception last handled by the except clause of line 166
    phase_log,           \* history: phases completed in the current outer iteration
    sub_sums,            \* history: loss summed across scales, per sub-iteration, before the division
    backprop,            \* history: the loss values handed to backward() in the current outer iteration
    pulls,               \* history: batches obtained in the current outer iteration
    sched_call,          \* the last call of poly_lr_scheduler: arguments, path taken, rates before
    model,               \* named_modules() of the model given to get_params
    groups               \* key -> what get_params yielded for it

vars == <<CONFIG, env, pc, iteration, i, param_lr, grad, iter_loss, loss_meter,
          data_times, compute_times, locals_bound, loader_pos, weights,
          checkpoints, checkpoint_current, checkpoint_final, logs_csv,
          tb_scalars, error, caught, phase_log, sub_sums, backprop, pulls,
          sched_call, model, groups>>

mainVars == <<CONFIG, env, pc, iteration, i, grad, iter_loss, loss_meter,
              data_times, compute_times, locals_bound, loader_pos, weights,
              checkpoints, checkpoint_current, checkpoint_final, logs_csv,
              tb_scalars, error, caught, phase_log, sub_sums, backprop, pulls>>

paramVars == <<model, groups>>

----------------------------------------------------------------------------
(* Bounds of the model.                                                    *)

MaxIterMax == 3        \* loop scenarios: ITER_MAX ranges over 0..MaxIterMax
MaxIterSize == 2       \* loop scenarios: ITER_SIZE ranges over 0..MaxIterSize
MaxBatches == 2        \* loop scenarios: the loader holds 0..MaxBatches batches
MaxScales == 2         \* the model returns 1..MaxScales logits
MaxRateIterMax == 4    \* rate scenarios: ITER_MAX ranges over 1..MaxRateIterMax
MaxPower == 2          \* rate scenarios: POLY_POWER ranges over 0..MaxPower
MaxDecay == 2          \* LR_DECAY / lr_decay_iter ranges up to MaxDecay
MaxSchedIter == 3      \* direct scheduler calls: iter ranges over 0..MaxSchedIter
MaxSchedMaxIter == 2   \* direct scheduler calls: max_iter ranges over 0..MaxSchedMaxIter
MaxSchedPower == 1     \* direct scheduler calls: power ranges over 0..MaxSchedPower

(* Program constants.                                                      *)
CurrentPeriod == 100   \* line 223
Mult10x == 10          \* lines 56, 115
Mult20x == 20          \* lines 57, 120

----------------------------------------------------------------------------
(* Exact rational arithmetic.                                              *)

RECURSIVE Gcd(_, _)
Gcd(a, b) == IF b = 0 THEN a ELSE Gcd(b, a % b)

Abs(x) == IF x < 0 THEN -x ELSE x

Rat(n, d) ==
    LET g == Gcd(Abs(n), d) IN <<n \div g, d \div g>>

RatInt(k) == <<k, 1>>
RatAdd(a, b) == Rat(a[1] * b[2] + b[1] * a[2], a[2] * b[2])
RatMul(a, b) == Rat(a[1] * b[1], a[2] * b[2])
RatScale(k, a) == Rat(k * a[1], a[2])
RatDivInt(a, k) == Rat(a[1], a[2] * k)

RECURSIVE RatPow(_, _)
RatPow(a, p) == IF p = 0 THEN RatInt(1) ELSE RatMul(a, RatPow(a, p - 1))

RECURSIVE SumSeq(_)
SumSeq(s) == IF s = <<>> THEN 0 ELSE Head(s) + SumSeq(Tail(s))

RECURSIVE RatSumSeq(_)
RatSumSeq(s) == IF s = <<>> THEN RatInt(0) ELSE RatAdd(Head(s), RatSumSeq(Tail(s)))

RECURSIVE Flatten(_)
Flatten(ss) == IF ss = <<>> THEN <<>> ELSE Head(ss) \o Flatten(Tail(ss))

Range(s) == {s[k] : k \in 1..Len(s)}

----------------------------------------------------------------------------
(* get_params, lines 29-48.                                                *)

LAYER == <<"l", "a", "y", "e", "r">>
ASPP == <<"a", "s", "p", "p">>

(* Python's  sub in s  on strings.                                         *)
Contains(sub, s) ==
    \E k \in 0..(Len(s) - Len(sub)) : SubSeq(s, k + 1, k + Len(sub)) = sub

Module(name, kind, bias) == [name |-> name, kind |-> kind, bias |-> bias]

(* A tensor is identified by the module owning it and the attribute.       *)
Tensor(m, attr) == [owner |-> m.name, attr |-> attr]
None == [owner |-> <<>>, attr |-> "None"]

weight(m) == Tensor(m, "weight")
bias(m) == IF m.bias THEN Tensor(m, "bias") ELSE None

(* Module.parameters() of a leaf module: weight, then bias when it has one *)
parameters(m) == IF m.bias THEN <<weight(m), bias(m)>> ELSE <<weight(m)>>

IsConv2d(m) == m.kind = "Conv2d"

Yield1x(m) ==
    IF Contains(LAYER, m.name) /\ IsConv2d(m) THEN parameters(m) ELSE <<>>

Yield10x(m) ==
    IF Contains(ASPP, m.name) /\ IsConv2d(m) THEN <<weight(m)>> ELSE <<>>

Yield20x_AlsoWeight(m) ==
    IF Contains(ASPP, m.name) /\ IsConv2d(m) THEN <<weight(m), bias(m)>> ELSE <<>>

Yield20x(m) ==
    IF Contains(ASPP, m.name) /\ IsConv2d(m) THEN <<bias(m)>> ELSE <<>>

get_params(mdl, key) ==
    CASE key = "1x" -> Flatten([k \in 1..Len(mdl) |-> Yield1x(mdl[k])])
      [] key = "10x" -> Flatten([k \in 1..Len(mdl) |-> Yield10x(mdl[k])])
      [] key = "20x" -> Flatten([k \in 1..Len(mdl) |-> Yield20x(mdl[k])])
      [] OTHER -> <<>>

----------------------------------------------------------------------------
(* poly_lr_scheduler, lines 51-57.                                         *)

(* line 52, for lr_decay_iter # 0 *)
SchedulerSkips_StrictBound(iter, lr_decay_iter, max_iter) ==
    (iter % lr_decay_iter # 0) \/ iter >= max_iter

SchedulerSkips(iter, lr_decay_iter, max_iter) ==
    (iter % lr_decay_iter # 0) \/ iter > max_iter

(* line 54, for max_iter # 0 and iter <= max_iter *)
PolyLR(init_lr, iter, max_iter, power) ==
    RatMul(init_lr, RatPow(Rat(max_iter - iter, max_iter), power))

GroupRates_SwappedMultiplier(new_lr) ==
    <<new_lr, RatScale(Mult20x, new_lr), RatScale(Mult20x, new_lr)>>

(* lines 55-57 *)
GroupRates(new_lr) ==
    <<new_lr, RatScale(Mult10x, new_lr), RatScale(Mult20x, new_lr)>>

(* The call as a whole: the path it takes and the rates it leaves.  Both   *)
(* iter % 0 (line 52) and float(iter) / 0 (line 54) raise                  *)
(* ZeroDivisionError in Python.                                            *)
poly_lr_scheduler(rates, init_lr, iter, lr_decay_iter, max_iter, power) ==
    IF lr_decay_iter = 0
    THEN [path |-> "ZeroDivisionError", lr |-> rates]
    ELSE IF SchedulerSkips(iter, lr_decay_iter, max_iter)
    THEN [path |-> "skip", lr |-> rates]
    ELSE IF max_iter = 0
    THEN [path |-> "ZeroDivisionError", lr |-> rates]
    ELSE [path |-> "update",
          lr |-> GroupRates(PolyLR(init_lr, iter, max_iter, power))]

NoCall ==
    [init_lr |-> RatInt(0), iter |-> 0, lr_decay_iter |-> 0, max_iter |-> 0,
     power |-> 0, path |-> "none", before |-> <<>>]

Call(rates, init_lr, iter, lr_decay_iter, max_iter, power) ==
    [init_lr |-> init_lr, iter |-> iter, lr_decay_iter |-> lr_decay_iter,
     max_iter |-> max_iter, power |-> power,
     path |-> poly_lr_scheduler(rates, init_lr, iter, lr_decay_iter, max_iter, power).path,
     before |-> rates]

----------------------------------------------------------------------------
(* Configurations and collaborators of a training run.                     *)

LRs == {Rat(1, 4), Rat(1, 10)}

Config(iter_max, iter_size, iter_save, iter_tb, lr_decay, lr, power) ==
    [ITER_MAX |-> iter_max, ITER_SIZE |-> iter_size, ITER_SAVE |-> iter_save,
     ITER_TB |-> iter_tb, LR_DECAY |-> lr_decay, LR |-> lr, POLY_POWER |-> power]

Env(nb, faulty) == [NB |-> nb, faulty |-> faulty]

(* Loop scenarios: the loop's shape, the loader's length and failures     *)
(* vary; the schedule is fixed.                                            *)
LoopScenarios ==
    {<<Config(im, is, sv, 2, 1, Rat(1, 4), 1), Env(nb, f)>> :
        im \in 0..MaxIterMax, is \in 0..MaxIterSize, sv \in 1..2,
        nb \in 0..MaxBatches, f \in BOOLEAN}

(* Rate scenarios: the schedule varies; one sub-iteration, nothing fails.  *)
RateScenarios ==
    {<<Config(im, 1, 2, 2, d, lr, p), Env(1, FALSE)>> :
        im \in 1..MaxRateIterMax, d \in 1..MaxDecay, lr \in LRs, p \in 0..MaxPower}

(* iter_save = 1000, iter_max = 2500: long enough for the saves of every   *)
(* 100 and every 1000 iterations to happen.                                *)
CadenceScenario ==
    <<Config(2500, 1, 1000, 500, 10, Rat(1, 10), 1), Env(3, FALSE)>>

Scenarios == LoopScenarios \cup RateScenarios \cup {CadenceScenario}

NoFile == [writes |-> 0, weights |-> 0]
Written(f, w) == [writes |-> f.writes + 1, weights |-> w]

(* The state of main when the loop of line 138 is reached.                 *)
MainInit(cfg, e) ==
    /\ CONFIG = cfg
    /\ env = e
    /\ pc = "loop"
    /\ iteration = 0
    /\ i = 0
    /\ grad = RatInt(0)
    /\ iter_loss = RatInt(0)
    /\ loss_meter = [n |-> 0, last |-> RatInt(0)]
    /\ data_times = <<>>
    /\ compute_times = <<>>
    /\ locals_bound = {}
    /\ loader_pos = 0
    /\ weights = 0
    /\ checkpoints = <<>>
    /\ checkpoint_current = NoFile
    /\ checkpoint_final = NoFile
    /\ logs_csv = [exists |-> FALSE, rows |-> <<>>]
    /\ tb_scalars = 0
    /\ error = "none"
    /\ caught = "none"
    /\ phase_log = <<>>
    /\ sub_sums = <<>>
    /\ backprop = <<>>
    /\ pulls = 0

(* lines 105-125: the optimizer's three groups *)
OptimizerRates(lr) == <<lr, RatScale(Mult10x, lr), RatScale(Mult20x, lr)>>

Init ==
    /\ \E sc \in Scenarios : MainInit(sc[1], sc[2])
    /\ param_lr = OptimizerRates(CONFIG.LR)
    /\ sched_call = NoCall
    /\ model = <<>>
    /\ groups = <<>>

Abort(exc) ==
    /\ pc' = "aborted"
    /\ error' = exc

----------------------------------------------------------------------------
(* The outer loop head, lines 138-161: the scheduler call, zero_grad and   *)
(* the resets.                                                             *)

(* line 156: optimizer.zero_grad() *)
zero_grad(g) == RatInt(0)

BeginIteration ==
    /\ pc = "loop"
    /\ iteration < CONFIG.ITER_MAX
    /\ LET it == iteration + 1
           res == poly_lr_scheduler(param_lr, CONFIG.LR, it - 1, CONFIG.LR_DECAY,
                                    CONFIG.ITER_MAX, CONFIG.POLY_POWER)
       IN /\ iteration' = it
          /\ sched_call' = Call(param_lr, CONFIG.LR, it - 1, CONFIG.LR_DECAY,
                                CONFIG.ITER_MAX, CONFIG.POLY_POWER)
          /\ param_lr' = res.lr
          /\ IF res.path = "ZeroDivisionError"
             THEN /\ Abort("ZeroDivisionError")
                  /\ UNCHANGED <<grad, iter_loss, data_times, compute_times,
                                 locals_bound, i, phase_log, sub_sums, backprop, pulls>>
             ELSE /\ grad' = zero_grad(grad)
                  /\ iter_loss' = RatInt(0)
                  /\ data_times' = <<>>
                  /\ compute_times' = <<>>
                  /\ locals_bound' = locals_bound \cup {"data_times"}
                  /\ i' = IF CONFIG.ITER_SIZE >= 1 THEN 1 ELSE i
                  /\ pc' = IF CONFIG.ITER_SIZE >= 1 THEN "pull" ELSE "step"
                  /\ phase_log' = <<"schedule", "zero_grad">>
                  /\ sub_sums' = <<>>
                  /\ backprop' = <<>>
                  /\ pulls' = 0
                  /\ UNCHANGED error
    /\ UNCHANGED <<CONFIG, env, loss_meter, loader_pos, weights, checkpoints,
                   checkpoint_current, checkpoint_final, logs_csv, tb_scalars,
                   caught, model, groups>>

----------------------------------------------------------------------------
(* The pull, lines 163-170.                                                *)

(* next(loader_iter) with pos batches already drawn; fail: the loader's    *)
(* own failure (a worker's error, a corrupt sample)                        *)
next(pos, fail) ==
    IF fail THEN [exc |-> "PullError", pos |-> pos]
    ELSE IF pos < env.NB THEN [exc |-> "none", pos |-> pos + 1]
    ELSE [exc |-> "StopIteration", pos |-> pos]

TryPull_NoRestart(pos, fail1, fail2) ==
    LET first == next(pos, fail1) IN
    IF first.exc = "none"
    THEN [exc |-> "none", pos |-> first.pos, caught |-> "none"]
    ELSE LET second == next(first.pos, fail2)
         IN [exc |-> second.exc, pos |-> second.pos, caught |-> first.exc]

(* lines 164-168: the bare except catches whatever the first next raised,  *)
(* restarts the iterator and draws again; what the second next raises      *)
(* propagates                                                              *)
TryPull(pos, fail1, fail2) ==
    LET first == next(pos, fail1) IN
    IF first.exc = "none"
    THEN [exc |-> "none", pos |-> first.pos, caught |-> "none"]
    ELSE LET second == next(0, fail2)
         IN [exc |-> second.exc, pos |-> second.pos, caught |-> first.exc]

Failures == IF env.faulty THEN BOOLEAN ELSE {FALSE}

Pull ==
    /\ pc = "pull"
    /\ \E fail1 \in Failures, fail2 \in Failures :
        LET r == TryPull(loader_pos, fail1, fail2) IN
        /\ loader_pos' = r.pos
        /\ caught' = IF r.caught = "none" THEN caught ELSE r.caught
        /\ locals_bound' = locals_bound \cup {"start"}
        /\ IF r.exc # "none"
           THEN /\ Abort(r.exc)
                /\ UNCHANGED <<data_times, phase_log, pulls>>
           ELSE /\ data_times' = Append(data_times, [iter |-> iteration, sub |-> i])
                /\ phase_log' = Append(phase_log, "pull")
                /\ pulls' = pulls + 1
                /\ pc' = "compute"
                /\ UNCHANGED error
    /\ UNCHANGED <<CONFIG, env, iteration, i, param_lr, grad, iter_loss, loss_meter,
                   compute_times, weights, checkpoints, checkpoint_current,
                   checkpoint_final, logs_csv, tb_scalars, sub_sums, backprop,
                   sched_call, model, groups>>

----------------------------------------------------------------------------
(* Forward pass, loss and backward pass, lines 172-192.                    *)

(* what the model's outputs can cost: one criterion value per logit *)
LossValues == {0, 1}

ScaleLosses ==
    UNION {[1..n -> LossValues] : n \in 1..MaxScales}

(* lines 180-186: loss = 0; loss += criterion(logit, labels_) per scale *)
SumAcrossScales(losses) == SumSeq(losses)

ScaleLoss_Undivided(loss, iter_size) == RatInt(loss)

(* line 189: loss /= float(CONFIG.ITER_SIZE) *)
ScaleLoss(loss, iter_size) == RatDivInt(RatInt(loss), iter_size)

Accumulate_Overwrite(g, loss) == loss

(* line 190: loss.backward() adds the loss's gradient to the buffers *)
Accumulate(g, loss) == RatAdd(g, loss)

ComputeFaults ==
    IF env.faulty THEN {"none", "ForwardError", "BackwardError"} ELSE {"none"}

Compute ==
    /\ pc = "compute"
    /\ \E losses \in ScaleLosses, fault \in ComputeFaults :
        LET loss == ScaleLoss(SumAcrossScales(losses), CONFIG.ITER_SIZE) IN
        IF fault # "none"
        THEN /\ Abort(fault)
             /\ UNCHANGED <<i, grad, iter_loss, phase_log, sub_sums, backprop>>
        ELSE /\ grad' = Accumulate(grad, loss)
             /\ iter_loss' = RatAdd(iter_loss, loss)
             /\ sub_sums' = Append(sub_sums, SumAcrossScales(losses))
             /\ backprop' = Append(backprop, loss)
             /\ phase_log' = phase_log \o <<"forward", "backward">>
             /\ IF i < CONFIG.ITER_SIZE
                THEN i' = i + 1 /\ pc' = "pull"
                ELSE i' = i /\ pc' = "step"
             /\ UNCHANGED error
    /\ UNCHANGED <<CONFIG, env, iteration, param_lr, loss_meter, data_times,
                   compute_times, locals_bound, loader_pos, weights, checkpoints,
                   checkpoint_current, checkpoint_final, logs_csv, tb_scalars,
                   caught, pulls, sched_call, model, groups>>

----------------------------------------------------------------------------
(* Meter and optimizer step, lines 194-199.                                *)

StepFaults == IF env.faulty THEN {"none", "StepError"} ELSE {"none"}

Step ==
    /\ pc = "step"
    /\ loss_meter' = [n |-> loss_meter.n + 1, last |-> iter_loss]
    /\ \E fault \in StepFaults :
        IF fault # "none"
        THEN /\ Abort(fault)
             /\ UNCHANGED <<weights, compute_times, phase_log>>
        ELSE /\ weights' = weights + 1
             /\ phase_log' = Append(phase_log, "step")
             /\ IF "start" \in locals_bound
                THEN /\ compute_times' = Append(compute_times, [iter |-> iteration, sub |-> i])
                     /\ pc' = "emit"
                     /\ UNCHANGED error
                ELSE \* line 199 reads start, which no sub-iteration has bound
                     /\ Abort("UnboundLocalError")
                     /\ UNCHANGED compute_times
    /\ UNCHANGED <<CONFIG, env, iteration, i, param_lr, grad, iter_loss, data_times,
                   locals_bound, loader_pos, checkpoints, checkpoint_current,
                   checkpoint_final, logs_csv, tb_scalars, caught, sub_sums,
                   backprop, pulls, sched_call, model, groups>>

----------------------------------------------------------------------------
(* TensorBoard and checkpoints, lines 201-227.                             *)

Due_OffByOne(it, period) == (it - 1) % period = 0

(* iteration % period == 0 *)
Due(it, period) == it % period = 0

(* torch.save to checkpoint_<it>.pth *)
SaveHistory(files, it, w) ==
    [k \in DOMAIN files \cup {it} |->
        IF k = it
        THEN Written(IF it \in DOMAIN files THEN files[it] ELSE NoFile, w)
        ELSE files[k]]

Emit ==
    /\ pc = "emit"
    /\ tb_scalars' = IF Due(iteration, CONFIG.ITER_TB) THEN iteration ELSE tb_scalars
    /\ checkpoints' = IF Due(iteration, CONFIG.ITER_SAVE)
                      THEN SaveHistory(checkpoints, iteration, weights)
                      ELSE checkpoints
    /\ checkpoint_current' = IF Due(iteration, CurrentPeriod)
                             THEN Written(checkpoint_current, weights)
                             ELSE checkpoint_current
    /\ phase_log' = Append(phase_log, "emit")
    /\ pc' = "loop"
    /\ UNCHANGED <<CONFIG, env, iteration, i, param_lr, grad, iter_loss, loss_meter,
                   data_times, compute_times, locals_bound, loader_pos, weights,
                   checkpoint_final, logs_csv, error, caught, sub_sums, backprop,
                   pulls, sched_call, model, groups>>

----------------------------------------------------------------------------
(* After the loop, lines 229-237.                                          *)

(* zip(data_times, compute_times) *)
zip(a, b) ==
    [k \in 1..(IF Len(a) < Len(b) THEN Len(a) ELSE Len(b)) |-> <<a[k], b[k]>>]

(* lines 229-233: open('logs.csv', 'w') creates the file, then the rows    *)
(* are written; data_times is unbound when the loop body never ran         *)
WriteLogs ==
    /\ pc = "loop"
    /\ iteration >= CONFIG.ITER_MAX
    /\ IF "data_times" \in locals_bound
       THEN /\ logs_csv' = [exists |-> TRUE, rows |-> zip(data_times, compute_times)]
            /\ pc' = "save_final"
            /\ UNCHANGED error
       ELSE /\ logs_csv' = [exists |-> TRUE, rows |-> <<>>]
            /\ Abort("UnboundLocalError")
    /\ UNCHANGED <<CONFIG, env, iteration, i, param_lr, grad, iter_loss, loss_meter,
                   data_times, compute_times, locals_bound, loader_pos, weights,
                   checkpoints, checkpoint_current, checkpoint_final, tb_scalars,
                   caught, phase_log, sub_sums, backprop, pulls, sched_call,
                   model, groups>>

(* lines 235-237 *)
SaveFinal ==
    /\ pc = "save_final"
    /\ checkpoint_final' = Written(checkpoint_final, weights)
    /\ pc' = "done"
    /\ UNCHANGED <<CONFIG, env, iteration, i, param_lr, grad, iter_loss, loss_meter,
                   data_times, compute_times, locals_bound, loader_pos, weights,
                   checkpoints, checkpoint_current, logs_csv, tb_scalars, error,
                   caught, phase_log, sub_sums, backprop, pulls, sched_call,
                   model, groups>>

Next ==
    \/ BeginIteration
    \/ Pull
    \/ Compute
    \/ Step
    \/ Emit
    \/ WriteLogs
    \/ SaveFinal

Spec == Init /\ [][Next]_vars

----------------------------------------------------------------------------
(* poly_lr_scheduler called directly, with arbitrary arguments.            *)

IdleConfig == Config(0, 0, 1, 1, 1, Rat(1, 4), 0)
IdleEnv == Env(0, FALSE)

SchedInit ==
    /\ MainInit(IdleConfig, IdleEnv)
    /\ \E lr \in LRs : param_lr = OptimizerRates(lr)
    /\ sched_call = NoCall
    /\ model = <<>>
    /\ groups = <<>>

SchedulerCall ==
    /\ \E init_lr \in LRs, iter \in 0..MaxSchedIter, lr_decay_iter \in 0..MaxDecay,
          max_iter \in 0..MaxSchedMaxIter, power \in 0..MaxSchedPower :
        /\ param_lr' = poly_lr_scheduler(param_lr, init_lr, iter, lr_decay_iter,
                                         max_iter, power).lr
        /\ sched_call' = Call(param_lr, init_lr, iter, lr_decay_iter, max_iter, power)
    /\ UNCHANGED mainVars
    /\ UNCHANGED paramVars

SchedNext == SchedulerCall

SchedSpec == SchedInit /\ [][SchedNext]_vars

----------------------------------------------------------------------------
(* get_params called on arbitrary models.                                  *)

Str(a, b) == a \o b

(* named_modules() of the largest model, in enumeration order: containers, *)
(* backbone and ASPP convolutions as DeepLabV2 names them, and             *)
(* convolutions whose qualified names mention both layer and aspp          *)
ModuleUniverse ==
    << Module(<<>>, "DeepLabV2", FALSE),
       Module(Str(LAYER, <<"1">>), "Conv2d", FALSE),
       Module(Str(LAYER, <<"2">>), "BatchNorm2d", TRUE),
       Module(Str(LAYER, <<"5">>), "Conv2d", TRUE),
       Module(ASPP, "ASPPModule", FALSE),
       Module(Str(ASPP, <<".", "0">>), "Conv2d", TRUE),
       Module(Str(ASPP, <<".", "1">>), "Conv2d", FALSE),
       Module(Str(ASPP, <<".", "b">>), "BatchNorm2d", TRUE),
       Module(Str(Str(LAYER, <<"5", ".">>), ASPP), "Conv2d", TRUE),
       Module(Str(Str(ASPP, <<"_">>), LAYER), "Conv2d", FALSE),
       Module(<<"f", "c">>, "Conv2d", TRUE) >>

RECURSIVE Select(_, _)
(* the modules of seq at the indices of idx, in order *)
Select(seq, idx) ==
    IF seq = <<>> THEN <<>>
    ELSE LET rest == Select(Tail(seq), {k - 1 : k \in idx \ {1}})
         IN IF 1 \in idx THEN <<Head(seq)>> \o rest ELSE rest

Models == {Select(ModuleUniverse, idx) : idx \in SUBSET (1..Len(ModuleUniverse))}

Keys == {"1x", "10x", "20x", "5x"}

ParamInit ==
    /\ MainInit(IdleConfig, IdleEnv)
    /\ param_lr = OptimizerRates(IdleConfig.LR)
    /\ sched_call = NoCall
    /\ model \in Models
    /\ groups = <<>>

GetParams ==
    /\ \E key \in Keys :
        /\ key \notin DOMAIN groups
        /\ groups' = [k \in DOMAIN groups \cup {key} |->
                        IF k = key THEN get_params(model, key) ELSE groups[k]]
    /\ UNCHANGED model
    /\ UNCHANGED mainVars
    /\ UNCHANGED <<param_lr, sched_call>>

ParamNext == GetParams

ParamSpec == ParamInit /\ [][ParamNext]_vars

----------------------------------------------------------------------------
(* Properties.                                                             *)

(* (1 - iter/max_iter)^power, computed as written *)
Decay(iter, max_iter, power) ==
    RatPow(RatAdd(RatInt(1), Rat(-iter, max_iter)), power)

Times(k, a) == Rat(k * a[1], a[2])

(* C1 (SchedSpec): for lr_decay_iter >= 1 and max_iter >= 1, a call of     *)
(* poly_lr_scheduler sets the group rates if and only if iter is a         *)
(* multiple of lr_decay_iter and iter <= max_iter; otherwise it returns    *)
(* with the three rates as they were.  A call with iter = 0 always sets    *)
(* them.                                                                   *)
C1_UpdatesIffMultipleWithinMax ==
    (sched_call.path # "none" /\ sched_call.lr_decay_iter >= 1 /\ sched_call.max_iter >= 1)
    => LET c == sched_call
           active == c.iter % c.lr_decay_iter = 0 /\ c.iter <= c.max_iter
           new_lr == RatMul(c.init_lr, Decay(c.iter, c.max_iter, c.power))
       IN /\ (c.path = "update") <=> active
          /\ active => param_lr = <<new_lr, Times(10, new_lr), Times(20, new_lr)>>
          /\ ~active => (c.path = "skip" /\ param_lr = c.before)
          /\ c.iter = 0 => c.path = "update"

(* an update at the boundary iter = max_iter > 0 that changed the rates *)
C1_Witness ==
    /\ sched_call.path = "update"
    /\ sched_call.iter = sched_call.max_iter
    /\ sched_call.iter > 0
    /\ sched_call.lr_decay_iter = 2
    /\ param_lr # sched_call.before

(* C2 (Spec): in every state of a training run group 2's rate is 10 times  *)
(* and group 3's rate 20 times group 1's, and group 1's rate is            *)
(* LR * (1 - m/ITER_MAX)^POLY_POWER for m the iter of the last scheduler   *)
(* update (LR itself before the first call).                               *)
C2_GroupRatio ==
    /\ param_lr[2] = Times(10, param_lr[1])
    /\ param_lr[3] = Times(20, param_lr[1])
    /\ iteration = 0 => param_lr[1] = CONFIG.LR
    /\ (iteration >= 1 /\ error # "ZeroDivisionError") =>
          LET m == ((iteration - 1) \div CONFIG.LR_DECAY) * CONFIG.LR_DECAY
          IN param_lr[1] = RatMul(CONFIG.LR, Decay(m, CONFIG.ITER_MAX, CONFIG.POLY_POWER))

(* after an update at iter > 0 that lowered the rates *)
C2_Witness ==
    /\ pc = "emit"
    /\ sched_call.path = "update"
    /\ sched_call.iter > 0
    /\ param_lr[1] # CONFIG.LR
    /\ param_lr[1] # RatInt(0)

(* C3 (Spec), as claimed: once logs.csv is written it holds one row per    *)
(* sub-batch pulled in the run, ITER_MAX * ITER_SIZE rows, in pull order.  *)
C3_LogHoldsEveryPull ==
    pc \in {"save_final", "done"} =>
        /\ Len(logs_csv.rows) = CONFIG.ITER_MAX * CONFIG.ITER_SIZE
        /\ \A k \in 1..Len(logs_csv.rows) :
              logs_csv.rows[k][1] =
                  [iter |-> ((k - 1) \div CONFIG.ITER_SIZE) + 1,
                   sub |-> ((k - 1) % CONFIG.ITER_SIZE) + 1]

(* outer iterations whose emission phase has run *)
Emitted ==
    IF phase_log # <<>> /\ phase_log[Len(phase_log)] = "emit"
    THEN iteration
    ELSE IF iteration = 0 THEN 0 ELSE iteration - 1

(* C4 (Spec): checkpoint_<k>.pth exists exactly for the emitted iterations *)
(* k that are multiples of ITER_SAVE, each written once with the weights   *)
(* of iteration k; checkpoint_current.pth has been written once per        *)
(* emitted multiple of 100; checkpoint_final.pth is written once, and only *)
(* when the run is done.  With ITER_SAVE = 1000 and ITER_MAX = 2500 the    *)
(* finished run has history checkpoints 1000 and 2000, 25 writes of the    *)
(* current checkpoint and one final checkpoint.                            *)
C4_CheckpointCadence ==
    /\ Cardinality(DOMAIN checkpoints) = Emitted \div CONFIG.ITER_SAVE
    /\ \A k \in DOMAIN checkpoints :
          /\ k % CONFIG.ITER_SAVE = 0
          /\ k >= 1 /\ k <= Emitted
          /\ checkpoints[k] = [writes |-> 1, weights |-> k]
    /\ checkpoint_current.writes = Emitted \div 100
    /\ checkpoint_current.writes > 0 =>
          checkpoint_current.weights = (Emitted \div 100) * 100
    /\ checkpoint_final.writes = (IF pc = "done" THEN 1 ELSE 0)
    /\ pc = "done" => checkpoint_final.weights = CONFIG.ITER_MAX
    /\ (pc = "done" /\ CONFIG.ITER_MAX = 2500 /\ CONFIG.ITER_SAVE = 1000) =>
          /\ DOMAIN checkpoints = {1000, 2000}
          /\ checkpoint_current.writes = 25

(* the finished run of 2500 iterations *)
C4_Witness ==
    /\ pc = "done"
    /\ CONFIG.ITER_MAX = 2500
    /\ CONFIG.ITER_SAVE = 1000
    /\ checkpoint_current.writes = 25
    /\ checkpoint_final.writes = 1

(* C5 (Spec), as claimed: an error other than iterator exhaustion is      *)
(* fatal wherever it is raised, the batch pull included: once the pull has *)
(* raised one, the run is aborted, with no restart and no retry.           *)
C5_NonExhaustionErrorIsFatal ==
    caught = "PullError" => pc = "aborted"

(* C6 (Spec): with a loader of at least one batch, StopIteration never     *)
(* ends the run; every sub-iteration obtains exactly one batch; a run      *)
(* whose collaborators do not fail and that has sub-iterations to run is   *)
(* never aborted, and it is done only after ITER_MAX outer iterations.     *)
C6_ExhaustionRecovered ==
    env.NB >= 1 =>
        /\ error # "StopIteration"
        /\ loader_pos <= env.NB
        /\ pc = "pull" => pulls = i - 1
        /\ pc = "compute" => (pulls = i /\ loader_pos >= 1)
        /\ pc \in {"step", "emit"} => pulls = CONFIG.ITER_SIZE
        /\ (~env.faulty /\ CONFIG.ITER_SIZE >= 1 /\ CONFIG.ITER_MAX >= 1) => pc # "aborted"
        /\ pc = "done" => (iteration = CONFIG.ITER_MAX /\ checkpoint_final.writes = 1)

(* a finished run over a one-batch loader with two sub-iterations per      *)
(* outer iteration: the loader was exhausted and restarted                 *)
C6_Witness ==
    /\ pc = "done"
    /\ env.NB = 1
    /\ ~env.faulty
    /\ CONFIG.ITER_SIZE = 2
    /\ CONFIG.ITER_MAX >= 2
    /\ caught = "StopIteration"

(* C7 (Spec), as claimed: with ITER_MAX = 0 the run is rejected with a     *)
(* configuration error before the loop and writes no file.                 *)
C7_ZeroIterMaxRejected ==
    CONFIG.ITER_MAX = 0 =>
        /\ pc \in {"loop", "aborted"}
        /\ pc = "aborted" => error = "ConfigError"
        /\ ~logs_csv.exists
        /\ checkpoint_final.writes = 0

(* C8 (Spec): for ITER_SIZE = N >= 1, every loss handed to backward() is   *)
(* the sub-iteration's loss summed across scales, divided by N; iter_loss  *)
(* is the sum of these over the sub-iterations of the current outer        *)
(* iteration only, and that sum is what the meter receives.                *)
C8_LossScaledByIterSize ==
    CONFIG.ITER_SIZE >= 1 =>
        LET N == CONFIG.ITER_SIZE IN
        /\ Len(backprop) = Len(sub_sums)
        /\ \A k \in 1..Len(backprop) : Times(N, backprop[k]) = RatInt(sub_sums[k])
        /\ pc \in {"pull", "compute", "step", "emit"} =>
              Times(N, iter_loss) = RatInt(SumSeq(sub_sums))
        /\ pc \in {"emit", "loop"} /\ iteration >= 1 =>
              /\ Len(sub_sums) = N
              /\ Times(N, loss_meter.last) = RatInt(SumSeq(sub_sums))
              /\ loss_meter.n = iteration

(* second outer iteration, two sub-iterations with sums 1 and 2: the meter *)
(* receives 3/2                                                            *)
C8_Witness ==
    /\ pc = "emit"
    /\ CONFIG.ITER_SIZE = 2
    /\ iteration = 2
    /\ sub_sums = <<1, 2>>
    /\ loss_meter.last = <<3, 2>>

TensorsOf(g) == Range(g) \ {None}

GroupsDisjoint ==
    \A k1 \in DOMAIN groups, k2 \in DOMAIN groups :
        k1 # k2 => TensorsOf(groups[k1]) \cap TensorsOf(groups[k2]) = {}

(* C9 (ParamSpec), as claimed: whatever the modules' names, no tensor is   *)
(* yielded for more than one of the keys.                                  *)
C9_GroupsDisjointForEveryModel ==
    GroupsDisjoint

NoConvNamedBoth ==
    \A k \in 1..Len(model) :
        IsConv2d(model[k]) =>
            ~(Contains(LAYER, model[k].name) /\ Contains(ASPP, model[k].name))

(* C9 (ParamSpec), amended: when no Conv2d module's qualified name         *)
(* contains both "layer" and "aspp", no tensor is yielded for more than    *)
(* one of the keys.                                                        *)
C9_GroupsDisjointUnlessNamedBoth ==
    NoConvNamedBoth => GroupsDisjoint

(* all three groups computed, none empty, for a model with backbone and    *)
(* ASPP convolutions                                                       *)
C9_Witness ==
    /\ NoConvNamedBoth
    /\ {"1x", "10x", "20x"} \subseteq DOMAIN groups
    /\ groups["1x"] # <<>>
    /\ Len(groups["10x"]) = 2
    /\ TensorsOf(groups["20x"]) # {}

IterationPhases(n) ==
    <<"schedule", "zero_grad">>
        \o Flatten([k \in 1..n |-> <<"pull", "forward", "backward">>])
        \o <<"step", "emit">>

IsPrefix(s, t) == Len(s) <= Len(t) /\ SubSeq(t, 1, Len(s)) = s

C10_PhaseInvariant ==
    /\ IsPrefix(phase_log, IterationPhases(CONFIG.ITER_SIZE))
    /\ (pc = "loop" /\ iteration >= 1) => phase_log = IterationPhases(CONFIG.ITER_SIZE)
    /\ (iteration >= 1) => (sched_call.path # "none" /\ sched_call.iter = iteration - 1)
    /\ grad = RatSumSeq(backprop)
    /\ weights = (IF "step" \in Range(phase_log) THEN iteration
                  ELSE IF iteration = 0 THEN 0 ELSE iteration - 1)
    /\ iteration <= CONFIG.ITER_MAX
    /\ pc \in {"save_final", "done"} =>
          (iteration = CONFIG.ITER_MAX /\ weights = CONFIG.ITER_MAX)

(* C10 (Spec): every outer iteration runs scheduler call (with             *)
(* iter = iteration - 1), zero_grad, ITER_SIZE times pull/forward/         *)
(* backward, one optimizer step, emission, in this order; the gradient     *)
(* buffers hold every loss backpropagated since zero_grad; the optimizer   *)
(* has stepped once per outer iteration, ITER_MAX times when the run is    *)
(* done; the iteration counter only ever grows by one, up to ITER_MAX.     *)
C10_PhaseOrder ==
    /\ []C10_PhaseInvariant
    /\ [][iteration' = iteration \/ iteration' = iteration + 1]_vars

(* a finished run of two outer iterations of two sub-iterations *)
C10_Witness ==
    /\ pc = "done"
    /\ CONFIG.ITER_MAX = 2
    /\ CONFIG.ITER_SIZE = 2
    /\ weights = 2

====
